---- MODULE Spec2Model ----
(***************************************************************************)
(* A model of apply_watermark.py: configuration loading (load_config),     *)
(* the command-line / GUI front end and the batch loop of main(), and      *)
(* watermark_document().  Calls into the environment (opening files, the   *)
(* zenity dialogs, the pdftk subprocess, writing the output file) are      *)
(* steps whose outcome the environment chooses.                            *)
(***************************************************************************)
EXTENDS Integers, Sequences, FiniteSets, TLC

VARIABLES
    installed,          \* programs found on PATH by shutil.which at import time
    local_config_file,  \* config.toml next to the script: state and content
    cli,                \* the command line given to this run
    runNo,              \* 1: first run; 2: the run after a dumped config was saved
    config,             \* the ChainMap returned by load_config()
    args,               \* the namespace returned by parser.parse_args()
    pc,                 \* position in main()
    idx,                \* position of the for loop in args.file (1-based)
    signed_file,        \* local variable of main()
    output_filename,    \* local variable of main()
    exitStatus,         \* process exit status; -1 while running
    traceback,          \* name of the exception that left main() uncaught, or "none"
    stdout,             \* what was printed
    dialogs,            \* zenity dialogs shown
    disk,               \* output files: path -> content
    diskBefore,         \* disk at the start of the current document job
    wmChecks,           \* outcomes of the readability checks of the watermark
    opened,             \* loop position -> whether the document could be opened (line 295)
    invoked,            \* loop position -> how run() on line 299 ended
    outcome             \* per loop position: how the job ended

vars == <<installed, local_config_file, cli, runNo, config, args, pc, idx,
          signed_file, output_filename, exitStatus, traceback, stdout, dialogs,
          disk, diskBefore, wmChecks, opened, invoked, outcome>>

----------------------------------------------------------------------------
(* Bounds of the model *)

MaxDocs == 2
MaxOverrides == 1

----------------------------------------------------------------------------
(* Python values: None, str and pathlib.Path *)

NoneVal == [t |-> "None", s |-> ""]
StrV(s) == [t |-> "str", s |-> s]
PathV(s) == [t |-> "Path", s |-> s]

\* str(value), as used by --dump-default-config
PyStr(v) == IF v.t = "None" THEN StrV("None") ELSE StrV(v.s)

\* truth value of `config[...]` in `if not config[...]`
Truthy(v) == CASE v.t = "None" -> FALSE
               [] v.t = "str" -> v.s # ""
               [] OTHER -> TRUE

\* pathlib.Path(value) as applied by argparse's type=Path
ToPath(v) == PathV(v.s)

Range(f) == {f[x] : x \in DOMAIN f}

----------------------------------------------------------------------------
(* Configuration *)

Keys == <<"output_folder", "watermark_pdf", "zenity_path", "pdftk_path", "output_template">>

which(prog) == IF prog \in installed
               THEN StrV(IF prog = "pdftk" THEN "/usr/bin/pdftk" ELSE "/usr/bin/zenity")
               ELSE NoneVal

default_config ==
    [output_folder   |-> PathV("/script/out"),
     watermark_pdf   |-> PathV("/script/resources/fs_watermark.pdf"),
     zenity_path     |-> which("zenity"),
     pdftk_path      |-> which("pdftk"),
     output_template |-> StrV("${stem}_watermark${suffix}")]

\* TOML text is a sequence of lines; a line is `key = "value"` or something
\* that is not TOML at all.
TomlLine(k, v) == [key |-> k, val |-> v]
Garbage == [key |-> "", val |-> "%%%"]

\* toml.dumps of a dict of strings: one line per key, in dict order
toml_dumps(d, keys) == [n \in 1..Len(keys) |-> TomlLine(keys[n], d[keys[n]].s)]

TomlValid(text) ==
    /\ \A n \in 1..Len(text) : text[n] # Garbage
    /\ \A m, n \in 1..Len(text) : text[m].key = text[n].key => m = n

\* toml.loads of a valid text: the dict of its lines
toml_loads(text) ==
    [k \in {text[n].key : n \in 1..Len(text)} |->
        StrV((CHOOSE l \in Range(text) : l.key = k).val)]

\* collections.ChainMap: a sequence of maps, looked up front to back
ChainMap(m) == <<m>>
new_child(cm, m) == <<m>> \o cm
RECURSIVE Lookup(_, _)
Lookup(cm, k) == IF k \in DOMAIN Head(cm) THEN Head(cm)[k] ELSE Lookup(Tail(cm), k)

\* load_config() leaves through `exit(1)` (lines 131-133) on any other error
load_config_aborts(file) == file.state = "file" /\ ~TomlValid(file.text)

\* a load_config() whose defaults shadow the local entries
load_config_defaults_first(file) ==
    IF file.state = "file" /\ TomlValid(file.text) /\ DOMAIN toml_loads(file.text) # {}
    THEN new_child(ChainMap(toml_loads(file.text)), default_config)
    ELSE ChainMap(default_config)

\* load_config(): the ChainMap it returns when it returns
load_config(file) ==
    IF file.state = "file" /\ TomlValid(file.text) /\ DOMAIN toml_loads(file.text) # {}
    THEN new_child(ChainMap(default_config), toml_loads(file.text))
    ELSE ChainMap(default_config)

----------------------------------------------------------------------------
(* Messages.  A text is a sequence of pieces; "{" and "}" are pieces of     *)
(* their own, so that str.format can be modelled by what it does.          *)

ZENITY_NOT_INSTALLED == <<"zenity ist nicht installiert">>

PDFTK_NOT_INSTALLED == <<"pdftk ist nicht installiert", "Auf Wiedersehen.">>

WATERMARK_FILE_ERROR ==
    <<"Beim Oeffnen der Datei mit dem Wasserzeichen ist ein Fehler aufgetreten:",
      "{", "error", "}">>

PDF_INPUT_ERROR ==
    <<"Beim Oeffnen der PDF-Datei ist ein Fehler aufgetreten:", "{", "error", "}">>

\* a plain literal: its doubled braces are never passed through str.format
\* before main() formats it
PDFTK_UNKNOWN_ERROR ==
    <<"Es ist ein unbekannter Fehler aufgetreten:", "{", "{", "error", "}", "}">>

FILE_SAVE_ERROR ==
    <<"Konnte die produzierte PDF-Datei nicht unter", "{", "path", "}",
      "speichern. Der Fehler war:", "{", "error", "}">>

SIGN_SUCCESS ==
    <<"Die signierte Datei wurde unter", "{", "path", "}", "gespeichert.">>

OUTPUT_TEMPLATE_ERROR ==
    <<"Beim Einsetzen der Werte in das Template", "{", "template.template", "}",
      "ist ein Fehler aufgetreten:", "{", "error", "}">>

\* the value of a replacement field: a keyword, or the attribute of one
FieldValue(name, kw) ==
    IF name = "template.template" THEN kw["template"] ELSE kw[name]

\* str.format(**kw): "{{" and "}}" give one literal brace, "{name}" gives the value
RECURSIVE format(_, _)
format(text, kw) ==
    IF text = << >> THEN << >>
    ELSE IF Len(text) >= 2 /\ text[1] = "{" /\ text[2] = "{"
         THEN <<"{">> \o format(SubSeq(text, 3, Len(text)), kw)
    ELSE IF Len(text) >= 2 /\ text[1] = "}" /\ text[2] = "}"
         THEN <<"}">> \o format(SubSeq(text, 3, Len(text)), kw)
    ELSE IF Len(text) >= 3 /\ text[1] = "{" /\ text[3] = "}"
         THEN FieldValue(text[2], kw) \o format(SubSeq(text, 4, Len(text)), kw)
    ELSE <<Head(text)>> \o format(Tail(text), kw)

\* `part` occurs in `text` as a run of consecutive pieces
Contains(text, part) ==
    \E k \in 1..(Len(text) - Len(part) + 1) :
        SubSeq(text, k, k + Len(part) - 1) = part

----------------------------------------------------------------------------
(* Documents, templates and paths *)

Docs == {"a.pdf", "b.pdf"}

\* pathlib: Path.stem and Path.suffix
stem(doc) == IF doc = "a.pdf" THEN "a" ELSE "b"
suffix(doc) == ".pdf"

\* the pieces string.Template sees in a template string
TemplateTokens(s) ==
    CASE s = "${stem}_watermark${suffix}" -> <<"${stem}", "_watermark", "${suffix}">>
      [] s = "${stem}_${name}" -> <<"${stem}", "_", "${name}">>
      [] s = "${stem}$" -> <<"${stem}", "$">>
      [] OTHER -> <<s>>

Placeholders == {"${stem}", "${suffix}", "${name}"}

\* Template.substitute(params): "ok" with the text, or the exception raised
substitute(template, params) ==
    LET toks == TemplateTokens(template.s)
        key(tok) == CASE tok = "${stem}" -> "stem"
                      [] tok = "${suffix}" -> "suffix"
                      [] OTHER -> "name"
    IN  IF \E n \in 1..Len(toks) : toks[n] = "$"
        THEN [raised |-> "ValueError", text |-> << >>]
        ELSE IF \E n \in 1..Len(toks) :
                    toks[n] \in Placeholders /\ key(toks[n]) \notin DOMAIN params
        THEN [raised |-> "KeyError", text |-> << >>]
        ELSE [raised |-> "none",
              text |-> [n \in 1..Len(toks) |->
                          IF toks[n] \in Placeholders THEN params[key(toks[n])]
                          ELSE toks[n]]]

\* the argument vector of line 300
Argv(pdftk, watermark) == <<pdftk.s, "-", "stamp", watermark.s, "output", "-">>

\* what pdftk wrote to its standard error
ToolStderr == <<"pdftk: error text on stderr">>

\* str() of the CalledProcessError raised by run(..., check=True)
CalledProcessErrorStr(argv) ==
    <<"Command">> \o argv \o <<"returned non-zero exit status 1.">>

\* file contents
Unbound == [kind |-> "unbound", src |-> "", inv |-> 0]
Stamped(doc, n) == [kind |-> "stamped", src |-> doc, inv |-> n]
Truncated == [kind |-> "truncated", src |-> "", inv |-> 0]
Partial(bytes) == [kind |-> "partial", src |-> bytes.src, inv |-> bytes.inv]

NoPath == [folder |-> "", name |-> << >>]
PathStr(p) == <<p.folder>> \o p.name

Put(d, p, c) == [q \in DOMAIN d \cup {p} |-> IF q = p THEN c ELSE d[q]]

----------------------------------------------------------------------------
(* Inputs of a run *)

RECURSIVE SeqsUpTo(_, _)
SeqsUpTo(S, n) ==
    IF n = 0 THEN {<< >>}
    ELSE SeqsUpTo(S, n - 1) \cup
         {Append(q, x) : q \in {r \in SeqsUpTo(S, n - 1) : Len(r) = n - 1}, x \in S}

\* lines a local config.toml may hold
ConfigLines ==
    {TomlLine("pdftk_path", "/opt/pdftk/bin/pdftk"),
     TomlLine("pdftk_path", ""),
     TomlLine("output_template", "${stem}_${name}"),
     TomlLine("watermark_pdf", "/home/fs/stamp.pdf"),
     Garbage}

ConfigFiles ==
    {[state |-> "missing", text |-> << >>], [state |-> "unreadable", text |-> << >>]}
    \cup {[state |-> "file", text |-> t] : t \in SeqsUpTo(ConfigLines, MaxOverrides)}

\* the options -w, -o and -t of a command line; NoneVal: not given
OptionSets ==
    {[watermark |-> NoneVal, output_folder |-> NoneVal, output_template |-> NoneVal],
     [watermark |-> StrV("/home/fs/other.pdf"), output_folder |-> StrV("/tmp/out"),
      output_template |-> NoneVal],
     [watermark |-> NoneVal, output_folder |-> NoneVal,
      output_template |-> StrV("${stem}_${name}")],
     [watermark |-> NoneVal, output_folder |-> NoneVal,
      output_template |-> StrV("${stem}$")]}

CommandLines ==
    {[file |-> f, opts |-> o, gui |-> g, dump_default_config |-> d] :
        f \in SeqsUpTo(Docs, MaxDocs), o \in OptionSets, g \in BOOLEAN, d \in BOOLEAN}

\* a program file that can be executed
Executable(path) ==
    \/ path = "/usr/bin/pdftk" /\ "pdftk" \in installed
    \/ path = "/usr/bin/zenity" /\ "zenity" \in installed
    \/ path = "/opt/pdftk/bin/pdftk"

----------------------------------------------------------------------------
(* argparse *)

Template(v) == [t |-> "Template", s |-> v.s]

\* argparse passes a default through `type` only when the default is a string
ArgDefault(v, asPath) ==
    IF v.t = "str" THEN (IF asPath THEN ToPath(v) ELSE Template(v)) ELSE v

parse_args(cfg, line) ==
    [file |-> line.file,
     watermark |-> IF line.opts.watermark = NoneVal
                   THEN ArgDefault(Lookup(cfg, "watermark_pdf"), TRUE)
                   ELSE ToPath(line.opts.watermark),
     output_folder |-> IF line.opts.output_folder = NoneVal
                       THEN ArgDefault(Lookup(cfg, "output_folder"), TRUE)
                       ELSE ToPath(line.opts.output_folder),
     output_template |-> IF line.opts.output_template = NoneVal
                         THEN ArgDefault(Lookup(cfg, "output_template"), FALSE)
                         ELSE Template(line.opts.output_template),
     gui |-> line.gui,
     dump_default_config |-> line.dump_default_config]

NoArgs ==
    [file |-> << >>, watermark |-> NoneVal, output_folder |-> NoneVal,
     output_template |-> NoneVal, gui |-> FALSE, dump_default_config |-> FALSE]

\* zenity --file-selection --multiple prints the chosen paths joined by "|"
RECURSIVE ZenityStdout(_)
ZenityStdout(sel) ==
    IF Len(sel) = 1 THEN <<sel[1], "\n">>
    ELSE <<sel[1], "|">> \o ZenityStdout(Tail(sel))

\* str.replace("\n", "")
RECURSIVE replace_newline(_)
replace_newline(text) ==
    IF text = << >> THEN << >>
    ELSE IF Head(text) = "\n" THEN replace_newline(Tail(text))
    ELSE <<Head(text)>> \o replace_newline(Tail(text))

\* str.split("|") followed by Path(file) for each piece
RECURSIVE split(_)
split(text) ==
    IF text = << >> THEN << >>
    ELSE IF Head(text) = "|" THEN split(Tail(text))
    ELSE <<Head(text)>> \o split(Tail(text))

----------------------------------------------------------------------------
(* The run *)

Fresh(inst, file, line, n) ==
    /\ installed = inst
    /\ local_config_file = file
    /\ cli = line
    /\ runNo = n
    /\ config = << >>
    /\ args = NoArgs
    /\ pc = "load_config"
    /\ idx = 1
    /\ signed_file = Unbound
    /\ output_filename = NoPath
    /\ exitStatus = -1
    /\ traceback = "none"
    /\ stdout = << >>
    /\ dialogs = << >>
    /\ disk = << >>
    /\ diskBefore = << >>
    /\ wmChecks = << >>
    /\ opened = << >>
    /\ invoked = << >>
    /\ outcome = << >>

Init ==
    \E inst \in SUBSET {"zenity", "pdftk"}, file \in ConfigFiles, line \in CommandLines :
        Fresh(inst, file, line, 1)

Msg(kind, text) == [kind |-> kind, text |-> text]

\* `return status` from main(), passed to exit() on line 311
Return(status) == pc' = "done" /\ exitStatus' = status

\* an exception nothing catches: the interpreter prints the traceback, status 1
Uncaught(exc) == pc' = "done" /\ exitStatus' = 1 /\ traceback' = exc

\* a show_error_msg() without its exit(1): main() goes on after the call
show_error_msg_returns(kind, text, next) ==
    /\ stdout' = Append(stdout, Msg(kind, text))
    /\ dialogs' = IF args.gui THEN Append(dialogs, Msg(kind, text)) ELSE dialogs
    /\ pc' = IF next = "return" THEN "done" ELSE next
    /\ exitStatus' = IF next = "return" THEN 1 ELSE exitStatus

\* show_error_msg(msg), lines 204-211: print, show in GUI mode, exit(1).
\* `next` is where main() would go on if the call returned; it never does.
show_error_msg(kind, text, next) ==
    /\ stdout' = Append(stdout, Msg(kind, text))
    /\ dialogs' = IF args.gui THEN Append(dialogs, Msg(kind, text)) ELSE dialogs
    /\ pc' = "done"
    /\ exitStatus' = 1

\* lines 138-183: load_config() and parser.parse_args()
Start ==
    /\ pc = "load_config"
    /\ IF load_config_aborts(local_config_file)
       THEN /\ Return(1)
            /\ UNCHANGED <<config, args>>
       ELSE /\ config' = load_config(local_config_file)
            /\ args' = parse_args(config', cli)
            /\ pc' = "dispatch"
            /\ UNCHANGED exitStatus
    /\ UNCHANGED <<installed, local_config_file, cli, runNo, idx, signed_file,
                   output_filename, traceback, stdout, dialogs, disk, diskBefore,
                   wmChecks, opened, invoked, outcome>>

\* lines 185-187
DumpDefaultConfig ==
    /\ pc = "dispatch"
    /\ args.dump_default_config
    /\ stdout' = Append(stdout,
          Msg("dump", toml_dumps([k \in DOMAIN default_config |-> PyStr(default_config[k])],
                                 Keys)))
    /\ Return(0)
    /\ UNCHANGED <<installed, local_config_file, cli, runNo, config, args, idx,
                   signed_file, output_filename, traceback, dialogs, disk, diskBefore,
                   wmChecks, opened, invoked, outcome>>

\* lines 188-199: GUI mode needs zenity and starts with an info dialog
GuiIntro ==
    /\ pc = "dispatch"
    /\ ~args.dump_default_config
    /\ args.gui
    /\ IF ~Truthy(Lookup(config, "zenity_path"))
       THEN /\ stdout' = Append(stdout, Msg("ZENITY_NOT_INSTALLED", ZENITY_NOT_INSTALLED))
            /\ Return(1)
            /\ UNCHANGED <<dialogs, traceback>>
       ELSE IF ~Executable(Lookup(config, "zenity_path").s)
       THEN /\ Uncaught("FileNotFoundError")
            /\ UNCHANGED <<stdout, dialogs>>
       ELSE /\ dialogs' = Append(dialogs, Msg("info", <<"__doc__">>))
            /\ \/ pc' = "check_pdftk" /\ UNCHANGED exitStatus
               \/ Return(0)   \* the user closed the window: CalledProcessError
            /\ UNCHANGED <<stdout, traceback>>
    /\ UNCHANGED <<installed, local_config_file, cli, runNo, config, args, idx,
                   signed_file, output_filename, disk, diskBefore,
                   wmChecks, opened, invoked, outcome>>

\* lines 200-202
PrintHelp ==
    /\ pc = "dispatch"
    /\ ~args.dump_default_config
    /\ ~args.gui
    /\ args.file = << >>
    /\ stdout' = Append(stdout, Msg("help", <<"usage">>))
    /\ Return(0)
    /\ UNCHANGED <<installed, local_config_file, cli, runNo, config, args, idx,
                   signed_file, output_filename, traceback, dialogs, disk, diskBefore,
                   wmChecks, opened, invoked, outcome>>

\* lines 213-224; command-line mode with documents arrives here from line 200
CheckPdftk ==
    /\ \/ pc = "check_pdftk"
       \/ pc = "dispatch" /\ ~args.dump_default_config /\ ~args.gui /\ args.file # << >>
    /\ IF ~Truthy(Lookup(config, "pdftk_path"))
       THEN IF args.gui
            THEN /\ dialogs' = Append(dialogs, Msg("PDFTK_NOT_INSTALLED", PDFTK_NOT_INSTALLED))
                 /\ pc' = "check_watermark"
                 /\ UNCHANGED <<stdout, exitStatus>>
            ELSE /\ stdout' = Append(stdout, Msg("PDFTK_NOT_INSTALLED", PDFTK_NOT_INSTALLED))
                 /\ Return(1)
                 /\ UNCHANGED dialogs
       ELSE /\ pc' = "check_watermark"
            /\ UNCHANGED <<stdout, dialogs, exitStatus>>
    /\ UNCHANGED <<installed, local_config_file, cli, runNo, config, args, idx,
                   signed_file, output_filename, traceback, disk, diskBefore,
                   wmChecks, opened, invoked, outcome>>

\* a watermark check whose failure is reported but does not end the run
CheckWatermark_goes_on ==
    /\ pc = "check_watermark"
    /\ \E readable \in BOOLEAN :
        /\ wmChecks' = Append(wmChecks, readable)
        /\ stdout' = IF readable THEN stdout
                     ELSE Append(stdout, Msg("WATERMARK_FILE_ERROR",
                            format(WATERMARK_FILE_ERROR,
                                   [error |-> <<"OSError", args.watermark.s>>])))
        /\ pc' = IF args.gui THEN "select_files" ELSE "loop"
    /\ UNCHANGED <<installed, local_config_file, cli, runNo, config, args, idx,
                   signed_file, output_filename, exitStatus, traceback, dialogs, disk,
                   diskBefore, opened, invoked, outcome>>

\* lines 225-231: args.watermark.open().close()
CheckWatermark ==
    /\ pc = "check_watermark"
    /\ \E readable \in BOOLEAN :
        /\ wmChecks' = Append(wmChecks, readable)
        /\ IF readable
           THEN /\ pc' = IF args.gui THEN "select_files" ELSE "loop"
                /\ UNCHANGED <<stdout, dialogs, exitStatus>>
           ELSE show_error_msg("WATERMARK_FILE_ERROR",
                    format(WATERMARK_FILE_ERROR, [error |-> <<"OSError", args.watermark.s>>]),
                    "return")
    /\ UNCHANGED <<installed, local_config_file, cli, runNo, config, args, idx,
                   signed_file, output_filename, traceback, disk, diskBefore,
                   opened, invoked, outcome>>

\* lines 232-256: the file selection dialog of GUI mode
SelectFiles ==
    /\ pc = "select_files"
    /\ \/ \E sel \in SeqsUpTo(Docs, MaxDocs) \ {<< >>} :
            /\ args' = [args EXCEPT !.file = split(replace_newline(ZenityStdout(sel)))]
            /\ dialogs' = Append(dialogs, Msg("file-selection", ZenityStdout(sel)))
            /\ pc' = "loop"
            /\ UNCHANGED <<stdout, exitStatus>>
       \/ /\ dialogs' = Append(dialogs, Msg("file-selection", << >>))
          /\ stdout' = Append(stdout, Msg("cancelled", <<"Exiting">>))
          /\ Return(0)
          /\ UNCHANGED args
    /\ UNCHANGED <<installed, local_config_file, cli, runNo, config, idx,
                   signed_file, output_filename, traceback, disk, diskBefore,
                   wmChecks, opened, invoked, outcome>>

\* line 257 and line 289: the next document, or the end of the list
ForLoop ==
    /\ pc = "loop"
    /\ IF idx <= Len(args.file)
       THEN /\ pc' = "watermark_document"
            /\ diskBefore' = disk
            /\ UNCHANGED exitStatus
       ELSE /\ Return(0)
            /\ UNCHANGED diskBefore
    /\ UNCHANGED <<installed, local_config_file, cli, runNo, config, args, idx,
                   signed_file, output_filename, traceback, stdout, dialogs, disk,
                   wmChecks, opened, invoked, outcome>>

\* watermark_document(), lines 292-307: the bytes pdftk wrote to its standard
\* output for the document at position n
watermark_document(doc, n) == Stamped(doc, n)

\* what run() on line 299 can do with this pdftk for an opened document
RunResults(pdftk) ==
    IF pdftk.t = "None" THEN {"TypeError"}
    ELSE IF ~Executable(pdftk.s) THEN {"FileNotFoundError"}
    ELSE {"ok", "CalledProcessError", "PermissionError"}

\* a watermark_document() that swallows the failed open
raises_never(readable) == FALSE

\* lines 293-297: a document that cannot be opened raises ValueError
raises_ValueError(readable) == ~readable

\* lines 258-265: the call of watermark_document() and its two handlers
WatermarkDocument ==
    /\ pc = "watermark_document"
    /\ \E readable \in BOOLEAN :
       LET doc == args.file[idx]
           pdftk == Lookup(config, "pdftk_path")
           argv == Argv(pdftk, args.watermark)
       IN
        /\ opened' = Put(opened, idx, readable)
        /\ IF raises_ValueError(readable)
           THEN
              /\ show_error_msg("PDF_INPUT_ERROR",
                     format(PDF_INPUT_ERROR, [error |-> <<"OSError", doc>>]),
                     "compute_output_path")
              /\ outcome' = Put(outcome, idx, "source-access")
              /\ UNCHANGED <<signed_file, invoked, traceback>>
           ELSE
              \E r \in RunResults(pdftk) :
                /\ invoked' = Put(invoked, idx, r)
                /\ CASE r = "ok" ->
                          /\ signed_file' = watermark_document(doc, idx)
                          /\ pc' = "compute_output_path"
                          /\ UNCHANGED <<stdout, dialogs, exitStatus, traceback, outcome>>
                     [] r = "CalledProcessError" ->
                          /\ show_error_msg("PDFTK_UNKNOWN_ERROR",
                                 format(PDFTK_UNKNOWN_ERROR,
                                        [error |-> CalledProcessErrorStr(argv),
                                         cmd |-> <<"1">> \o argv]),
                                 "compute_output_path")
                          /\ outcome' = Put(outcome, idx, "tool-nonzero")
                          /\ UNCHANGED <<signed_file, traceback>>
                     [] OTHER ->
                          /\ Uncaught(r)
                          /\ outcome' = Put(outcome, idx, "tool-launch")
                          /\ UNCHANGED <<signed_file, stdout, dialogs>>
    /\ UNCHANGED <<installed, local_config_file, cli, runNo, config, args, idx,
                   output_filename, disk, diskBefore, wmChecks>>

\* lines 266-276
ComputeOutputPath ==
    /\ pc = "compute_output_path"
    /\ LET doc == args.file[idx]
           output_template_params == [stem |-> stem(doc), suffix |-> suffix(doc)]
           sub == substitute(args.output_template, output_template_params)
       IN  IF sub.raised = "none"
           THEN /\ output_filename' = [folder |-> args.output_folder.s, name |-> sub.text]
                /\ pc' = "write_output"
                /\ UNCHANGED <<stdout, dialogs, exitStatus, outcome>>
           ELSE /\ show_error_msg("OUTPUT_TEMPLATE_ERROR",
                       format(OUTPUT_TEMPLATE_ERROR,
                              [error |-> <<sub.raised>>,
                               template |-> <<args.output_template.s>>]),
                       "write_output")
                /\ outcome' = Put(outcome, idx, "template")
                /\ UNCHANGED output_filename
    /\ UNCHANGED <<installed, local_config_file, cli, runNo, config, args, idx,
                   signed_file, traceback, disk, diskBefore, wmChecks, opened, invoked>>

\* what lines 278-279 can leave at the output path
WriteResults(bytes) ==
    IF bytes = Unbound THEN {"open-fails", "truncated"}
    ELSE {"written", "open-fails", "truncated", "partial"}

\* a write step that only notices a failed open()
write_raises_only_on_open(w) == w = "open-fails"

\* lines 280-283: anything but a complete write raises into the handler
write_raises(w) == w # "written"

\* lines 277-283: open(output_filename, "wb") and write(signed_file)
WriteOutput ==
    /\ pc = "write_output"
    /\ IF output_filename = NoPath
       THEN /\ Uncaught("UnboundLocalError")
            /\ outcome' = Put(outcome, idx, "output-write")
            /\ UNCHANGED <<disk, stdout, dialogs>>
       ELSE \E w \in WriteResults(signed_file) :
              /\ disk' = CASE w = "written" -> Put(disk, output_filename, signed_file)
                           [] w = "truncated" -> Put(disk, output_filename, Truncated)
                           [] w = "partial" -> Put(disk, output_filename, Partial(signed_file))
                           [] OTHER -> disk
              /\ IF ~write_raises(w)
                 THEN /\ pc' = "report_success"
                      /\ UNCHANGED <<stdout, dialogs, exitStatus, outcome>>
                 ELSE /\ show_error_msg("FILE_SAVE_ERROR",
                             format(FILE_SAVE_ERROR,
                                    [path |-> PathStr(output_filename),
                                     error |-> <<"OSError">>]),
                             "return")
                      /\ outcome' = Put(outcome, idx, "output-write")
              /\ UNCHANGED traceback
    /\ UNCHANGED <<installed, local_config_file, cli, runNo, config, args, idx,
                   signed_file, output_filename, diskBefore, wmChecks, opened, invoked>>

\* lines 284-288, and back to line 257
ReportSuccess ==
    /\ pc = "report_success"
    /\ LET success_msg == Msg("SIGN_SUCCESS",
                              format(SIGN_SUCCESS, [path |-> PathStr(output_filename)]))
       IN  IF args.gui
           THEN dialogs' = Append(dialogs, success_msg) /\ UNCHANGED stdout
           ELSE stdout' = Append(stdout, success_msg) /\ UNCHANGED dialogs
    /\ outcome' = Put(outcome, idx, "DONE")
    /\ idx' = idx + 1
    /\ pc' = "loop"
    /\ UNCHANGED <<installed, local_config_file, cli, runNo, config, args,
                   signed_file, output_filename, exitStatus, traceback, disk, diskBefore,
                   wmChecks, opened, invoked>>

\* the text printed by --dump-default-config is saved as config.toml
\* ("useful to create a local config", line 179) and the script is run again
SaveDumpAsLocalConfig ==
    /\ pc = "done"
    /\ runNo = 1
    /\ stdout # << >>
    /\ stdout[Len(stdout)].kind = "dump"
    /\ \E line \in {l \in CommandLines : ~l.dump_default_config} :
        /\ installed' = installed
        /\ local_config_file' = [state |-> "file", text |-> stdout[Len(stdout)].text]
        /\ cli' = line
        /\ runNo' = 2
    /\ config' = << >>
    /\ args' = NoArgs
    /\ pc' = "load_config"
    /\ idx' = 1
    /\ signed_file' = Unbound
    /\ output_filename' = NoPath
    /\ exitStatus' = -1
    /\ traceback' = "none"
    /\ stdout' = << >>
    /\ dialogs' = << >>
    /\ UNCHANGED <<disk, diskBefore, wmChecks, opened, invoked, outcome>>

Next ==
    \/ Start
    \/ DumpDefaultConfig
    \/ GuiIntro
    \/ PrintHelp
    \/ CheckPdftk
    \/ CheckWatermark
    \/ SelectFiles
    \/ ForLoop
    \/ WatermarkDocument
    \/ ComputeOutputPath
    \/ WriteOutput
    \/ ReportSuccess
    \/ SaveDumpAsLocalConfig

Spec == Init /\ [][Next]_vars

----------------------------------------------------------------------------
(* Properties *)

Count(msgs, kind) == Cardinality({k \in 1..Len(msgs) : msgs[k].kind = kind})

Shown(kind) == Count(stdout, kind) + Count(dialogs, kind)

Failed(n) == n \in DOMAIN outcome /\ outcome[n] # "DONE"

SomeJobFailed == \E n \in DOMAIN outcome : Failed(n)

LastJob == CHOOSE n \in DOMAIN outcome : \A m \in DOMAIN outcome : m <= n

\* the output path of the document at position n
PathOf(n) ==
    [folder |-> args.output_folder.s,
     name |-> substitute(args.output_template,
                         [stem |-> stem(args.file[n]), suffix |-> suffix(args.file[n])]).text]

\* the success confirmations, in the order they were emitted
Successes ==
    LET IsSuccess(m) == m.kind = "SIGN_SUCCESS"
    IN  SelectSeq(IF args.gui THEN dialogs ELSE stdout, IsSuccess)

ToolUnavailable == Shown("PDFTK_NOT_INSTALLED") > 0

WatermarkUnreadable == wmChecks # << >> /\ ~wmChecks[Len(wmChecks)]

AllStamped ==
    /\ args.file # << >>
    /\ DOMAIN outcome = 1..Len(args.file)
    /\ \A n \in DOMAIN outcome : outcome[n] = "DONE"

HelpOnly == Count(stdout, "help") > 0

\* C2: the exit status is non-zero when the absent tool was found out, the
\* watermark could not be opened or a document job failed, and zero when
\* every document was stamped or only the help was printed.
C2_ExitStatus ==
    pc = "done" =>
        /\ (ToolUnavailable \/ WatermarkUnreadable \/ SomeJobFailed) => exitStatus # 0
        /\ (AllStamped \/ HelpOnly) => exitStatus = 0

\* C3: an absent tool is reported once and the run ends there: no watermark
\* check, no file selection, no document opened, no tool invocation follows.
C3_AbsentToolEndsRun ==
    ToolUnavailable =>
        /\ Shown("PDFTK_NOT_INSTALLED") = 1
        /\ wmChecks = << >>
        /\ Count(dialogs, "file-selection") = 0
        /\ DOMAIN opened = {}
        /\ DOMAIN invoked = {}

\* C4: the watermark is checked once, before the first document job; a
\* failed check ends the run with the watermark error reported and nothing
\* opened, invoked or written.
C4_WatermarkCheckedOnceBeforeJobs ==
    /\ Len(wmChecks) <= 1
    /\ pc \in {"select_files", "loop", "watermark_document", "compute_output_path",
               "write_output", "report_success"} => wmChecks = <<TRUE>>
    /\ (DOMAIN opened # {} \/ DOMAIN invoked # {} \/ DOMAIN disk # {}) => wmChecks = <<TRUE>>
    /\ wmChecks = <<FALSE>> =>
         /\ pc = "done"
         /\ exitStatus = 1
         /\ Count(stdout, "WATERMARK_FILE_ERROR") = 1
         /\ args.gui => Count(dialogs, "WATERMARK_FILE_ERROR") = 1
         /\ DOMAIN opened = {}
         /\ DOMAIN invoked = {}
         /\ DOMAIN disk = {}

C4_Witness ==
    /\ wmChecks = <<FALSE>>
    /\ pc = "done"
    /\ args.file # << >>

\* C5: every failed tool invocation is caught and reported with a message
\* that holds the tool's standard-error text and the argument vector.
C5_ToolFailureReported ==
    \A n \in DOMAIN invoked :
        invoked[n] # "ok" =>
            /\ traceback = "none"
            /\ \E k \in 1..Len(stdout) :
                 /\ stdout[k].kind = "PDFTK_UNKNOWN_ERROR"
                 /\ Contains(stdout[k].text, ToolStderr)
                 /\ Contains(stdout[k].text,
                             Argv(Lookup(config, "pdftk_path"), args.watermark))

\* the entries a readable, well-formed local config file holds
Overrides ==
    IF local_config_file.state = "file" /\ TomlValid(local_config_file.text)
    THEN [k \in {l.key : l \in Range(local_config_file.text)} |->
            StrV((CHOOSE l \in Range(local_config_file.text) : l.key = k).val)]
    ELSE << >>

\* C6: once load_config() has returned, every key maps to the override when
\* the file has one and to the default otherwise; with a missing, unreadable
\* or empty file the configuration is the defaults.
C6_OverrideShadowing ==
    (pc # "load_config" /\ ~load_config_aborts(local_config_file)) =>
        /\ config # << >>
        /\ \A k \in DOMAIN default_config \cup DOMAIN Overrides :
             Lookup(config, k) = IF k \in DOMAIN Overrides THEN Overrides[k]
                                 ELSE default_config[k]
        /\ DOMAIN Overrides = {} => config = <<default_config>>

C6_Witness ==
    /\ pc = "dispatch"
    /\ "pdftk_path" \in DOMAIN Overrides
    /\ Lookup(config, "pdftk_path") # default_config.pdftk_path
    /\ Lookup(config, "watermark_pdf") = default_config.watermark_pdf

\* how the program treats a configuration value
Behaviour(v) == [present |-> Truthy(v), text |-> IF Truthy(v) THEN v.s ELSE ""]

\* C7: the dumped defaults, saved as the local config file, load to a
\* configuration that behaves like the defaults for every key.
C7_DumpRoundTrip ==
    (runNo = 2 /\ config # << >>) =>
        \A k \in DOMAIN default_config :
            Behaviour(Lookup(config, k)) = Behaviour(default_config[k])

\* C8: a document that cannot be opened ends its job with the source-access
\* error, and pdftk is not run for it.
C8_UnreadableSourceSkipsTool ==
    \A n \in DOMAIN opened :
        ~opened[n] =>
            /\ n \notin DOMAIN invoked
            /\ n \in DOMAIN outcome
            /\ outcome[n] = "source-access"
            /\ pc = "done"
            /\ exitStatus = 1
            /\ \E k \in 1..Len(stdout) :
                 stdout[k] = Msg("PDF_INPUT_ERROR",
                                 format(PDF_INPUT_ERROR, [error |-> <<"OSError", args.file[n]>>]))

C8_Witness ==
    /\ 2 \in DOMAIN opened
    /\ ~opened[2]
    /\ outcome[1] = "DONE"

OthersUntouched ==
    \A p \in DOMAIN disk \ {output_filename} : p \in DOMAIN diskBefore /\ disk[p] = diskBefore[p]

\* C9 as claimed: after a job, either it succeeded and its output holds the
\* stamped bytes, or it failed and the disk is as it was before the job.
C9_NoPartialOutput ==
    (pc \in {"loop", "done"} /\ DOMAIN outcome # {}) =>
        IF outcome[LastJob] = "DONE"
        THEN /\ output_filename \in DOMAIN disk
             /\ disk[output_filename] = Stamped(args.file[LastJob], LastJob)
        ELSE /\ exitStatus = 1
             /\ disk = diskBefore

\* C9 as amended: a job that fails before its write step leaves the disk as
\* it was; a job that fails in its write step may leave its own output file
\* created empty, truncated or partly written, and touches no other file.
C9_FailureBeforeWriteLeavesDisk ==
    (pc \in {"loop", "done"} /\ DOMAIN outcome # {}) =>
        CASE outcome[LastJob] = "DONE" ->
               /\ output_filename \in DOMAIN disk
               /\ disk[output_filename] = Stamped(args.file[LastJob], LastJob)
               /\ OthersUntouched
          [] outcome[LastJob] = "output-write" ->
               /\ exitStatus = 1
               /\ Count(stdout, "FILE_SAVE_ERROR") = 1
               /\ OthersUntouched
               /\ output_filename \in DOMAIN disk =>
                    \/ disk[output_filename] \in {Truncated, Partial(signed_file)}
                    \/ /\ output_filename \in DOMAIN diskBefore
                       /\ disk[output_filename] = diskBefore[output_filename]
          [] OTHER ->
               /\ exitStatus = 1
               /\ disk = diskBefore

C9_Witness ==
    /\ pc = "done"
    /\ DOMAIN outcome # {}
    /\ outcome[LastJob] = "output-write"
    /\ output_filename \in DOMAIN diskBefore
    /\ diskBefore[output_filename].kind = "stamped"
    /\ disk[output_filename] = Truncated

\* C10: bytes reach an output file only after pdftk returned zero for the
\* same document, and they are the standard output of that invocation.
C10_WrittenBytesAreOwnStdout ==
    /\ pc \in {"write_output", "report_success"} =>
         /\ idx \in DOMAIN invoked
         /\ invoked[idx] = "ok"
         /\ signed_file = Stamped(args.file[idx], idx)
    /\ pc = "report_success" => disk[output_filename] = signed_file
    /\ \A p \in DOMAIN disk :
         disk[p].kind \in {"stamped", "partial"} =>
             /\ disk[p].inv \in DOMAIN invoked
             /\ invoked[disk[p].inv] = "ok"
             /\ disk[p].src = args.file[disk[p].inv]

C10_Witness ==
    /\ pc = "report_success"
    /\ idx = 2
    /\ disk[output_filename] = Stamped(args.file[2], 2)
    /\ output_filename \in DOMAIN diskBefore

====
